---------------------------- MODULE Spec2Model ----------------------------
(***************************************************************************)
(* Offscreen tone-mapping library (Clib/HDR.cpp, Clib/shaderClass.cpp) and *)
(* its older test harness (hdrtesting/HDR.cpp), modelled as a state        *)
(* machine whose steps are the exported calls.                             *)
(*                                                                         *)
(* The GLFW / OpenGL side is modelled by what the calls do to the objects  *)
(* the library owns: windows (one GL context each, no sharing: the share   *)
(* argument of glfwCreateWindow is nullptr) and GPU objects, each living   *)
(* in the context that was current when it was generated.  A GPU object    *)
(* counts as live from the glGen*/glCreate* that makes it until the        *)
(* glDelete* that names it, or until its context is destroyed.             *)
(***************************************************************************)
EXTENDS Integers, Sequences, FiniteSets, TLC

(***************************************************************************)
(* Bounds of the model.                                                    *)
(***************************************************************************)
\* windows ever created by glfwCreateWindow in one behaviour
MaxWindows == 3
\* live GPU objects one context may hold before another UploadToGL is tried
MaxLeaked == 6
\* consecutive successful UploadToGL calls that are counted
MaxCalls == 3
\* calls of the test harness's UploadToGL in one behaviour
MaxTestCalls == 3

(***************************************************************************)
(* Program state.                                                          *)
(***************************************************************************)
VARIABLES
    \* Clib/HDR.cpp globals
    gWindow,            \* 0 is nullptr, otherwise a window pointer
    gGLReady,
    quadVAO,            \* 0 or a VAO name
    quadVBO,            \* 0 or a buffer name
    \* GLFW / glad / GL
    glfwInitialized,    \* between a successful glfwInit and glfwTerminate
    liveWindows,        \* windows created and not destroyed
    nextWindow,         \* the pointer glfwCreateWindow hands out next
    currentCtx,         \* window whose context is current, 0 if none
    gladLoaded,         \* gladLoadGLLoader has succeeded once
    objs,               \* live GPU objects: [ctx, kind, name]
    \* hdrtesting/HDR.cpp globals and the objects of the caller's context
    hdrtesting_quadVAO,
    hdrtesting_quadVBO,
    hdrtesting_objs,
    \* what the caller of the last call sees
    outputBGRA,         \* the caller's buffer: [bytes, content]
    log,                \* lines the last call wrote to std::cout
    lastOp,             \* the exported function called last
    lastRet,            \* value InitGLFW returned in the last call
    lastEnv,            \* outcomes the environment gave the last InitGLFW
    trace,              \* library / GL calls of the last call, in order
    created,            \* GPU objects the last call generated
    fboStatus,          \* glCheckFramebufferStatus of the last call
    linkStatus,         \* GL_LINK_STATUS of the program the last call built
    stages,             \* GL_COMPILE_STATUS of the two stages it compiled
    size,               \* width and height the last render pass was given
    \* bookkeeping over several calls
    runLen,             \* UploadToGL calls in a row that ran to the end
    baseline,           \* per-call objects live before the first of them
    tornDown,           \* a CleanupGLFW destroyed a ready context and no
                        \* InitGLFW has run since
    reinit,             \* the last call ran InitGLFW with tornDown set
    repeat              \* the last call was InitGLFW or CleanupGLFW and
                        \* repeated the call before it, outcomes included

glVars == <<glfwInitialized, liveWindows, nextWindow, currentCtx, gladLoaded, objs>>
progVars == <<gWindow, gGLReady, quadVAO, quadVBO>>
testVars == <<hdrtesting_quadVAO, hdrtesting_quadVBO, hdrtesting_objs>>
callVars ==
    <<outputBGRA, log, lastOp, lastRet, lastEnv, trace, created, fboStatus,
      linkStatus, stages, size>>
histVars == <<runLen, baseline, tornDown, reinit, repeat>>
vars == <<progVars, glVars, testVars, callVars, histVars>>

(***************************************************************************)
(* The library's state as one value, so that a call can be computed as a   *)
(* function of the state before it.                                        *)
(***************************************************************************)
State ==
    [gWindow |-> gWindow, gGLReady |-> gGLReady,
     quadVAO |-> quadVAO, quadVBO |-> quadVBO,
     glfwInitialized |-> glfwInitialized, liveWindows |-> liveWindows,
     nextWindow |-> nextWindow, currentCtx |-> currentCtx,
     gladLoaded |-> gladLoaded, objs |-> objs]

\* what the environment answers to the three fallible steps of InitGLFW
InitEnvs == [init : BOOLEAN, window : BOOLEAN, loader : BOOLEAN]
AllOk == [init |-> TRUE, window |-> TRUE, loader |-> TRUE]
\* stands where no step of InitGLFW was asked of the environment
NoEnv == [init |-> FALSE, window |-> FALSE, loader |-> FALSE]

\* shader source files as the loader finds them
Files == {"missing", "valid", "invalid"}
\* what the environment answers to the steps of a Shader construction:
\* the two files, the driver's link result for two compiled stages, whether
\* the compiler pools equal string literals, and whether an unwritten GLint
\* happens to hold GL_FALSE.  An answer that is never asked for (the link of
\* stages that did not both compile, the unwritten value when the literals
\* are pooled) is not varied.
ShaderEnvs ==
    {e \in [vert : Files, frag : Files, link : BOOLEAN,
            pooled : BOOLEAN, garbage : BOOLEAN] :
        /\ e.link => (e.vert = "valid" /\ e.frag = "valid")
        /\ e.garbage => ~e.pooled}
NoShader ==
    [vert |-> "valid", frag |-> "valid", link |-> TRUE,
     pooled |-> TRUE, garbage |-> FALSE]

PerCallKinds == {"texture", "framebuffer", "program"}

(***************************************************************************)
(* GL object names.                                                        *)
(***************************************************************************)
\* glGen* / glCreate*: the lowest name unused in the context for these kinds
\* (shader and program objects share one name space)
GenName(os, ctx, kinds) ==
    LET used == {o.name : o \in {p \in os : p.ctx = ctx /\ p.kind \in kinds}}
    IN  CHOOSE n \in 1..(Cardinality(used) + 1) :
            n \notin used /\ \A m \in 1..(n - 1) : m \in used

Obj(ctx, kind, name) == [ctx |-> ctx, kind |-> kind, name |-> name]

\* glDelete*: the named object of the current context, if there is one
GlDelete(os, ctx, kind, name) == os \ {Obj(ctx, kind, name)}

PerCall(os) == {o \in os : o.kind \in PerCallKinds}

(***************************************************************************)
(* Clib/HDR.cpp: InitGLFW                                                  *)
(***************************************************************************)
\* what a call hands back: the state after it, InitGLFW's value, the calls made
InitResult(st, ret, tr) == [st |-> st, ret |-> ret, trace |-> tr]

AlreadyInitialized_Never(st) == FALSE

\* line 125: the already-initialized shortcut
AlreadyInitialized(st) == st.gGLReady

\* glfwInit returns GLFW_TRUE at once when the library is initialized,
\* otherwise it is up to the platform
GlfwInitOk(st, env) == st.glfwInitialized \/ env.init

WindowHints == <<"glfwWindowHint", "glfwWindowHint", "glfwWindowHint", "glfwWindowHint">>

DoInitGLFW_ReadyBeforeLoad(st, env) ==
    IF AlreadyInitialized(st)
    THEN InitResult(st, TRUE, <<>>)
    ELSE IF ~GlfwInitOk(st, env)
    THEN InitResult(st, FALSE, <<"glfwInit">>)
    ELSE
      LET s1 == [st EXCEPT !.glfwInitialized = TRUE]
          t1 == <<"glfwInit">> \o WindowHints \o <<"glfwCreateWindow">>
      IN  IF ~env.window
          THEN InitResult([s1 EXCEPT !.gWindow = 0], FALSE, t1)
          ELSE
            LET w  == s1.nextWindow
                s2 == [s1 EXCEPT !.gWindow = w,
                                 !.liveWindows = @ \cup {w},
                                 !.nextWindow = w + 1,
                                 !.currentCtx = w,
                                 !.gGLReady = TRUE]
                t2 == t1 \o <<"glfwMakeContextCurrent", "gladLoadGLLoader">>
            IN  IF ~env.loader
                THEN InitResult(s2, FALSE, t2)
                ELSE InitResult([s2 EXCEPT !.gladLoaded = TRUE], TRUE, t2)

\* lines 122-152
DoInitGLFW(st, env) ==
    IF AlreadyInitialized(st)
    THEN InitResult(st, TRUE, <<>>)
    ELSE IF ~GlfwInitOk(st, env)
    THEN InitResult(st, FALSE, <<"glfwInit">>)
    ELSE
      LET s1 == [st EXCEPT !.glfwInitialized = TRUE]
          t1 == <<"glfwInit">> \o WindowHints \o <<"glfwCreateWindow">>
      IN  IF ~env.window
          THEN InitResult([s1 EXCEPT !.gWindow = 0], FALSE, t1)
          ELSE
            LET w  == s1.nextWindow
                s2 == [s1 EXCEPT !.gWindow = w,
                                 !.liveWindows = @ \cup {w},
                                 !.nextWindow = w + 1,
                                 !.currentCtx = w]
                t2 == t1 \o <<"glfwMakeContextCurrent", "gladLoadGLLoader">>
            IN  IF ~env.loader
                THEN InitResult(s2, FALSE, t2)
                ELSE InitResult([s2 EXCEPT !.gladLoaded = TRUE,
                                           !.gGLReady = TRUE], TRUE, t2)

(***************************************************************************)
(* Clib/HDR.cpp: CleanupGLFW                                               *)
(***************************************************************************)
\* glfwDestroyWindow: the window and its context go, and with the context
\* every object in it; a current context is detached first
GlfwDestroyWindow(st, w) ==
    [st EXCEPT !.liveWindows = @ \ {w},
               !.objs = {o \in @ : o.ctx # w},
               !.currentCtx = IF @ = w THEN 0 ELSE @]

\* glfwTerminate: destroys every remaining window and leaves the library
\* uninitialized
GlfwTerminate(st) ==
    [st EXCEPT !.liveWindows = {},
               !.objs = {o \in @ : o.ctx \notin st.liveWindows},
               !.currentCtx = 0,
               !.glfwInitialized = FALSE]

DoCleanupGLFW_KeepsReady(st) ==
    IF st.gGLReady
    THEN [st |-> GlfwTerminate(GlfwDestroyWindow(st, st.gWindow)),
          trace |-> <<"glfwDestroyWindow", "glfwTerminate">>]
    ELSE [st |-> st, trace |-> <<>>]

DoCleanupGLFW_NoGuard(st) ==
    [st |-> [GlfwTerminate(GlfwDestroyWindow(st, st.gWindow))
                EXCEPT !.gGLReady = FALSE],
     trace |-> <<"glfwDestroyWindow", "glfwTerminate">>]

DoCleanupGLFW(st) ==
    IF st.gGLReady
    THEN [st |-> [GlfwTerminate(GlfwDestroyWindow(st, st.gWindow))
                     EXCEPT !.gGLReady = FALSE],
          trace |-> <<"glfwDestroyWindow", "glfwTerminate">>]
    ELSE [st |-> st, trace |-> <<>>]

(***************************************************************************)
(* Clib/HDR.cpp: InitFullscreenQuad                                        *)
(***************************************************************************)
QuadSetup ==
    <<"glGenVertexArrays", "glGenBuffers", "glBindVertexArray", "glBindBuffer",
      "glBufferData", "glEnableVertexAttribArray", "glVertexAttribPointer",
      "glEnableVertexAttribArray", "glVertexAttribPointer", "glBindVertexArray">>

InitFullscreenQuad(st) ==
    IF st.quadVAO # 0
    THEN [st |-> st, trace |-> <<>>, created |-> {}]
    ELSE
      LET ctx == st.currentCtx
          vao == GenName(st.objs, ctx, {"vertexarray"})
          vbo == GenName(st.objs, ctx, {"buffer"})
          new == {Obj(ctx, "vertexarray", vao), Obj(ctx, "buffer", vbo)}
      IN  [st |-> [st EXCEPT !.quadVAO = vao, !.quadVBO = vbo,
                             !.objs = @ \cup new],
           trace |-> QuadSetup, created |-> new]

(***************************************************************************)
(* Clib/shaderClass.cpp                                                    *)
(***************************************************************************)
\* get_file_contents: the text of the file, or "" and a line on std::cout
get_file_contents(file) ==
    IF file = "missing"
    THEN [text |-> "", log |-> <<"file not found">>]
    ELSE [text |-> file, log |-> <<>>]

\* glCompileShader: GL_COMPILE_STATUS of a stage given this source text
CompileStatus(text) == text = "valid"

\* glLinkProgram: GL_LINK_STATUS; a program with a stage that did not
\* compile never links
LinkStatus(vOk, fOk, env) == vOk /\ fOk /\ env.link

\* line 157, type != "PROGRAM": a comparison of two pointers.  The literals
\* "VERTEX" and "FRAGMENT" are never at the address of "PROGRAM"; whether the
\* two "PROGRAM" literals share one address is up to the compiler.
IsProgramLiteral(type, env) == type = "PROGRAM" /\ env.pooled

\* compileErrors: status is the flag of the object asked about.  Asked for
\* GL_COMPILE_STATUS of a program name, glGetShaderiv raises a GL error and
\* leaves hasCompiled unwritten.
compileErrors(type, status, env) ==
    IF ~IsProgramLiteral(type, env)
    THEN LET hasCompiled == IF type = "PROGRAM" THEN ~env.garbage ELSE status
         IN  IF ~hasCompiled
             THEN [trace |-> <<"glGetShaderiv", "glGetShaderInfoLog">>,
                   log |-> <<"SHADER_COMPILATION_ERROR for: " \o type>>]
             ELSE [trace |-> <<"glGetShaderiv">>, log |-> <<>>]
    ELSE IF ~status
         THEN [trace |-> <<"glGetProgramiv", "glGetProgramInfoLog">>,
               log |-> <<"SHADER_LINKING_ERROR for: " \o type>>]
         ELSE [trace |-> <<"glGetProgramiv">>, log |-> <<>>]

\* Shader::Shader in context ctx: the objects after it, the program's ID and
\* link status, the lines printed and the calls made
Shader(os, ctx, env) ==
    LET vertexCode     == get_file_contents(env.vert)
        fragmentCode   == get_file_contents(env.frag)
        names          == {"shader", "program"}
        vertexShader   == GenName(os, ctx, names)
        o1             == os \cup {Obj(ctx, "shader", vertexShader)}
        vOk            == CompileStatus(vertexCode.text)
        e1             == compileErrors("VERTEX", vOk, env)
        fragmentShader == GenName(o1, ctx, names)
        o2             == o1 \cup {Obj(ctx, "shader", fragmentShader)}
        fOk            == CompileStatus(fragmentCode.text)
        e2             == compileErrors("FRAGMENT", fOk, env)
        ID             == GenName(o2, ctx, names)
        o3             == o2 \cup {Obj(ctx, "program", ID)}
        linked         == LinkStatus(vOk, fOk, env)
        e3             == compileErrors("PROGRAM", linked, env)
        o4             == GlDelete(GlDelete(o3, ctx, "shader", vertexShader),
                                   ctx, "shader", fragmentShader)
    IN  [objs |-> o4, ID |-> ID, linked |-> linked,
         stages |-> [vertex |-> vOk, fragment |-> fOk],
         created |-> {Obj(ctx, "shader", vertexShader),
                      Obj(ctx, "shader", fragmentShader),
                      Obj(ctx, "program", ID)},
         log |-> vertexCode.log \o fragmentCode.log \o e1.log \o e2.log \o e3.log,
         trace |-> <<"Shader::Shader", "glCreateShader", "glShaderSource",
                     "glCompileShader">> \o e1.trace
                   \o <<"glCreateShader", "glShaderSource", "glCompileShader">>
                   \o e2.trace
                   \o <<"glCreateProgram", "glAttachShader", "glAttachShader",
                        "glLinkProgram">> \o e3.trace
                   \o <<"glDeleteShader", "glDeleteShader">>]

\* Shader::Activate
Activate == <<"Shader::Activate", "glUseProgram">>

\* Shader::Delete
Delete(os, ctx, ID) == GlDelete(os, ctx, "program", ID)

(***************************************************************************)
(* Clib/HDR.cpp: UploadToGL                                                *)
(***************************************************************************)
FboStatuses == {"GL_FRAMEBUFFER_COMPLETE", "GL_FRAMEBUFFER_UNSUPPORTED"}

\* image sizes the callers are given: one pixel, and the two-pixel row of the
\* specification's end-to-end scenario
Sizes == {[width |-> 1, height |-> 1], [width |-> 2, height |-> 1]}

\* the inputs of one render pass: the environment's answers and the image
\* size.  With an incomplete framebuffer the shader is never built and the
\* size never read again, so those are not varied.
RenderInputs ==
    {[fbo |-> "GL_FRAMEBUFFER_COMPLETE", shader |-> e, size |-> z] :
        e \in ShaderEnvs, z \in Sizes}
    \cup {[fbo |-> f, shader |-> NoShader, size |-> [width |-> 1, height |-> 1]] :
            f \in FboStatuses \ {"GL_FRAMEBUFFER_COMPLETE"}}
\* stands for the inputs of a call that never gets to ask for them
NoRender ==
    [fbo |-> "GL_FRAMEBUFFER_COMPLETE", shader |-> NoShader,
     size |-> [width |-> 1, height |-> 1]]

\* the caller's buffer as handed in: nothing written yet
Unwritten == [bytes |-> 0, content |-> "unwritten"]

FramebufferComplete_Unchecked(status) == TRUE

\* line 256: the completeness test
FramebufferComplete(status) == status = "GL_FRAMEBUFFER_COMPLETE"

ReleasePerCall_LeaksTarget(os, ctx, hdrTex, colorTex, fbo, ID) ==
    Delete(GlDelete(GlDelete(os, ctx, "texture", hdrTex),
                    ctx, "framebuffer", fbo), ctx, ID)

\* lines 310-313: the cleanup at the end of the call
ReleasePerCall(os, ctx, hdrTex, colorTex, fbo, ID) ==
    Delete(GlDelete(GlDelete(GlDelete(os, ctx, "texture", hdrTex),
                             ctx, "texture", colorTex),
                    ctx, "framebuffer", fbo), ctx, ID)

\* lines 198-253: input texture, framebuffer, render-target texture
UploadSetup ==
    <<"glGenTextures", "glBindTexture", "glTexImage2D", "glTexParameteri",
      "glTexParameteri", "glGenFramebuffers", "glBindFramebuffer",
      "glGenTextures", "glBindTexture", "glTexImage2D", "glTexParameteri",
      "glTexParameteri", "glBindTexture", "glFramebufferTexture2D",
      "glCheckFramebufferStatus">>

\* lines 282-304: uniforms, draw, readback
UploadDraw ==
    <<"glUniform1i", "glUniform1f", "glUniform1f", "glUniform1f",
      "glBindVertexArray", "glActiveTexture", "glBindTexture", "glDrawArrays",
      "glBindVertexArray", "glReadPixels">>

\* lines 310-313
UploadRelease ==
    <<"glDeleteTextures", "glDeleteTextures", "glDeleteFramebuffers",
      "Shader::Delete", "glDeleteProgram">>

\* glReadPixels into the caller's buffer: width*height BGRA pixels.  The
\* pixels are the tone-mapped image when the draw ran with a linked program
\* and the quad's vertex array; otherwise the draw raises a GL error or has
\* undefined results and the render target holds unspecified data.
Readback(width, height, drawn) ==
    [bytes |-> width * height * 4,
     content |-> IF drawn THEN "tonemapped" ELSE "undefined"]

(***************************************************************************)
(* default.frag, the tone-mapping fragment shader.  Its source is not part *)
(* of the sources at hand; what the specification pins of it (4.4 step 8,  *)
(* section 8) is modelled: per channel c' = c * exposure, 0 maps to 0, a   *)
(* scaled value equal to whitePoint maps to 1.0 and so to 255, the curve   *)
(* in between is left open; alpha is written as 1.0.                       *)
(***************************************************************************)
\* caller-side parameters, in the same unit as the channel values
Exposures == {1, 2}
WhitePoints == {1, 2}

\* the 8-bit values one channel may come out as
ToneMapChannel(c, exposure, whitePoint) ==
    LET scaled == c * exposure
    IN  IF scaled = 0 THEN {0}
        ELSE IF scaled = whitePoint THEN {255}
        ELSE 0..255

\* glReadPixels(GL_BGRA, GL_UNSIGNED_BYTE) of one rendered pixel: is the
\* pixel read back for the input pixel rgb certain to be bgra?  Only a draw
\* that ran pins the bytes; data of a render target never drawn to is
\* unspecified.
ReadsBack(content, rgb, exposure, whitePoint, bgra) ==
    /\ content = "tonemapped"
    /\ \A k \in 1..3 :
          ToneMapChannel(rgb[4 - k], exposure, whitePoint) = {bgra[k]}
    /\ bgra[4] = 255

UploadResult(st, ret, tr, lg, made, out, fbo, link, stg) ==
    [st |-> st, ret |-> ret, trace |-> tr, log |-> lg, created |-> made,
     out |-> out, fbo |-> fbo, link |-> link, stages |-> stg]

DoUploadToGL(st, env, in) ==
    LET i == DoInitGLFW(st, env)
    IN  IF ~i.ret
        THEN UploadResult(i.st, FALSE, i.trace, <<>>, {}, Unwritten, "none", "none",
                          "none")
        ELSE
          LET q        == InitFullscreenQuad(i.st)
              s1       == [q.st EXCEPT !.currentCtx = q.st.gWindow]
              ctx      == s1.currentCtx
              hdrTex   == GenName(s1.objs, ctx, {"texture"})
              o1       == s1.objs \cup {Obj(ctx, "texture", hdrTex)}
              fbo      == GenName(o1, ctx, {"framebuffer"})
              o2       == o1 \cup {Obj(ctx, "framebuffer", fbo)}
              colorTex == GenName(o2, ctx, {"texture"})
              o3       == o2 \cup {Obj(ctx, "texture", colorTex)}
              made     == q.created \cup {Obj(ctx, "texture", hdrTex),
                                          Obj(ctx, "framebuffer", fbo),
                                          Obj(ctx, "texture", colorTex)}
              t3       == i.trace \o q.trace \o <<"glfwMakeContextCurrent">>
                          \o UploadSetup
          IN  IF ~FramebufferComplete(in.fbo)
              THEN UploadResult([s1 EXCEPT !.objs = o3], TRUE, t3, <<>>, made,
                                Unwritten, in.fbo, "none", "none")
              ELSE
                LET shaderProgram == Shader(o3, ctx, in.shader)
                    quadBound == Obj(ctx, "vertexarray", s1.quadVAO)
                                    \in shaderProgram.objs
                    out == Readback(in.size.width, in.size.height,
                                    shaderProgram.linked /\ quadBound)
                    o4  == ReleasePerCall(shaderProgram.objs, ctx, hdrTex,
                                          colorTex, fbo, shaderProgram.ID)
                IN  UploadResult([s1 EXCEPT !.objs = o4], TRUE,
                        t3 \o <<"glBindFramebuffer", "glViewport">>
                           \o shaderProgram.trace \o Activate \o UploadDraw
                           \o UploadRelease,
                        shaderProgram.log,
                        made \cup shaderProgram.created, out, in.fbo,
                        IF shaderProgram.linked THEN "linked" ELSE "failed",
                        shaderProgram.stages)

(***************************************************************************)
(* hdrtesting/HDR.cpp: the test harness.  It renders in the context its    *)
(* caller made current, called context 0 here.                             *)
(***************************************************************************)
TestCtx == 0

\* lines 31-57: no guard, a new vertex array and buffer on every call
hdrtesting_InitFullscreenQuad(os) ==
    LET vao == GenName(os, TestCtx, {"vertexarray"})
        vbo == GenName(os, TestCtx, {"buffer"})
        new == {Obj(TestCtx, "vertexarray", vao), Obj(TestCtx, "buffer", vbo)}
    IN  [objs |-> os \cup new, quadVAO |-> vao, quadVBO |-> vbo,
         trace |-> QuadSetup, created |-> new]

\* lines 59-64
RenderFullscreenQuad == <<"glBindVertexArray", "glDrawArrays", "glBindVertexArray">>

\* lines 72-87: the helper buffer objects, whose classes are outside the core
TestBuffers ==
    <<"VAO::VAO", "VAO::Bind", "VBO::VBO", "EBO::EBO", "VAO::LinkAttrib",
      "VAO::LinkAttrib", "VAO::LinkAttrib", "VAO::Unbind", "VBO::Unbind",
      "EBO::Unbind">>

\* lines 89-134
TestSetup ==
    <<"glGenTextures", "glBindTexture", "glTexImage2D", "glTexParameteri",
      "glTexParameteri", "glGenFramebuffers", "glBindFramebuffer",
      "glGenTextures", "glBindTexture", "glTexImage2D",
      "glFramebufferTexture2D">>

\* lines 66-173.  There is no completeness test: on an incomplete framebuffer
\* the draw and glReadPixels raise GL_INVALID_FRAMEBUFFER_OPERATION and the
\* buffer is not written.
hdrtesting_UploadToGL(os, in) ==
    LET q             == hdrtesting_InitFullscreenQuad(os)
        shaderProgram == Shader(q.objs, TestCtx, in.shader)
        o0            == shaderProgram.objs
        hdrTex        == GenName(o0, TestCtx, {"texture"})
        o1            == o0 \cup {Obj(TestCtx, "texture", hdrTex)}
        fbo           == GenName(o1, TestCtx, {"framebuffer"})
        o2            == o1 \cup {Obj(TestCtx, "framebuffer", fbo)}
        colorTex      == GenName(o2, TestCtx, {"texture"})
        o3            == o2 \cup {Obj(TestCtx, "texture", colorTex)}
        o4            == GlDelete(GlDelete(GlDelete(o3, TestCtx, "texture", hdrTex),
                                           TestCtx, "texture", colorTex),
                                  TestCtx, "framebuffer", fbo)
    IN  [objs |-> o4, quadVAO |-> q.quadVAO, quadVBO |-> q.quadVBO,
         trace |-> <<"gladLoadGL">> \o q.trace \o shaderProgram.trace
                   \o TestBuffers \o TestSetup
                   \o <<"glViewport", "glDisable">> \o Activate
                   \o <<"glActiveTexture", "glBindTexture", "glUniform1f",
                        "glUniform1f", "glUniform1f", "glUniform1f">>
                   \o RenderFullscreenQuad
                   \o <<"glReadPixels", "glDeleteTextures", "glDeleteTextures",
                        "glDeleteFramebuffers">>,
         log |-> shaderProgram.log,
         created |-> q.created \cup shaderProgram.created
                     \cup {Obj(TestCtx, "texture", hdrTex),
                           Obj(TestCtx, "framebuffer", fbo),
                           Obj(TestCtx, "texture", colorTex)},
         out |-> IF in.fbo = "GL_FRAMEBUFFER_COMPLETE"
                 THEN Readback(in.size.width, in.size.height, shaderProgram.linked)
                 ELSE Unwritten,
         fbo |-> in.fbo,
         link |-> IF shaderProgram.linked THEN "linked" ELSE "failed",
         stages |-> shaderProgram.stages]

(***************************************************************************)
(* The state machine: one step per exported call.                          *)
(***************************************************************************)
\* the library as the process starts: the initializers of lines 22-43, GLFW
\* not initialized, no window, no context
Fresh ==
    [gWindow |-> 0, gGLReady |-> FALSE, quadVAO |-> 0, quadVBO |-> 0,
     glfwInitialized |-> FALSE, liveWindows |-> {}, nextWindow |-> 1,
     currentCtx |-> 0, gladLoaded |-> FALSE, objs |-> {}]

Init ==
    /\ gWindow = Fresh.gWindow
    /\ gGLReady = Fresh.gGLReady
    /\ quadVAO = Fresh.quadVAO
    /\ quadVBO = Fresh.quadVBO
    /\ glfwInitialized = Fresh.glfwInitialized
    /\ liveWindows = Fresh.liveWindows
    /\ nextWindow = Fresh.nextWindow
    /\ currentCtx = Fresh.currentCtx
    /\ gladLoaded = Fresh.gladLoaded
    /\ objs = Fresh.objs
    /\ hdrtesting_quadVAO = 0
    /\ hdrtesting_quadVBO = 0
    /\ hdrtesting_objs = {}
    /\ outputBGRA = Unwritten
    /\ log = <<>>
    /\ lastOp = "none"
    /\ lastRet = FALSE
    /\ lastEnv = NoEnv
    /\ trace = <<>>
    /\ created = {}
    /\ fboStatus = "none"
    /\ linkStatus = "none"
    /\ stages = "none"
    /\ size = NoRender.size
    /\ runLen = 0
    /\ baseline = {}
    /\ tornDown = FALSE
    /\ reinit = FALSE
    /\ repeat = FALSE

\* the library's state after a call
Becomes(st) ==
    /\ gWindow' = st.gWindow
    /\ gGLReady' = st.gGLReady
    /\ quadVAO' = st.quadVAO
    /\ quadVBO' = st.quadVBO
    /\ glfwInitialized' = st.glfwInitialized
    /\ liveWindows' = st.liveWindows
    /\ nextWindow' = st.nextWindow
    /\ currentCtx' = st.currentCtx
    /\ gladLoaded' = st.gladLoaded
    /\ objs' = st.objs

\* glfwCreateWindow hands out at most MaxWindows windows
WithinWindows(st) == st.nextWindow <= MaxWindows + 1

InitGLFW ==
    \E env \in InitEnvs :
      \E r \in {DoInitGLFW(State, env)} :
          /\ WithinWindows(r.st)
          /\ Becomes(r.st)
          /\ lastOp' = "InitGLFW"
          /\ lastRet' = r.ret
          /\ lastEnv' = env
          /\ trace' = r.trace
          /\ log' = <<>>
          /\ created' = {}
          /\ fboStatus' = "none"
          /\ linkStatus' = "none"
          /\ stages' = "none"
          /\ runLen' = 0
          /\ baseline' = {}
          /\ tornDown' = FALSE
          /\ reinit' = tornDown
          /\ repeat' = (lastOp = "InitGLFW" /\ lastEnv = env)
          /\ UNCHANGED <<outputBGRA, size, testVars>>

\* a call that reached the end of UploadToGL
RanToEnd(r) == r.ret /\ FramebufferComplete(r.fbo)

\* the outcomes InitGLFW may meet inside UploadToGL: none is asked for when
\* the shortcut is taken
UploadEnvs(st) == IF AlreadyInitialized(st) THEN {NoEnv} ELSE InitEnvs

\* the render inputs a call gets to ask for: none when its InitGLFW fails
UploadInputs(st, env) ==
    IF DoInitGLFW(st, env).ret THEN RenderInputs ELSE {NoRender}

UploadToGL ==
    \E env \in UploadEnvs(State) :
     \E in \in UploadInputs(State, env) :
      \E r \in {DoUploadToGL(State, env, in)} :
          /\ Cardinality(objs) <= MaxLeaked
          /\ WithinWindows(r.st)
          /\ RanToEnd(r) => runLen < MaxCalls
          /\ Becomes(r.st)
          /\ outputBGRA' = r.out
          /\ lastOp' = "UploadToGL"
          /\ lastRet' = r.ret
          /\ lastEnv' = env
          /\ trace' = r.trace
          /\ log' = r.log
          /\ created' = r.created
          /\ fboStatus' = r.fbo
          /\ linkStatus' = r.link
          /\ stages' = r.stages
          /\ size' = in.size
          /\ runLen' = IF RanToEnd(r) THEN runLen + 1 ELSE 0
          /\ baseline' = IF ~RanToEnd(r) THEN {}
                         ELSE IF runLen = 0 THEN PerCall(objs) ELSE baseline
          /\ tornDown' = FALSE
          /\ reinit' = tornDown
          /\ repeat' = FALSE
          /\ UNCHANGED testVars

CleanupGLFW ==
    \E r \in {DoCleanupGLFW(State)} :
        /\ Becomes(r.st)
        /\ lastOp' = "CleanupGLFW"
        /\ lastRet' = FALSE
        /\ lastEnv' = NoEnv
        /\ trace' = r.trace
        /\ log' = <<>>
        /\ created' = {}
        /\ fboStatus' = "none"
        /\ linkStatus' = "none"
        /\ stages' = "none"
        /\ runLen' = 0
        /\ baseline' = {}
        /\ tornDown' = (tornDown \/ gGLReady)
        /\ reinit' = FALSE
        /\ repeat' = (lastOp = "CleanupGLFW")
        /\ UNCHANGED <<outputBGRA, size, testVars>>

TestPrograms == {o \in hdrtesting_objs : o.kind = "program"}

TestUploadToGL ==
    \E in \in RenderInputs :
      \E r \in {hdrtesting_UploadToGL(hdrtesting_objs, in)} :
          /\ Cardinality(TestPrograms) < MaxTestCalls
          /\ hdrtesting_objs' = r.objs
          /\ hdrtesting_quadVAO' = r.quadVAO
          /\ hdrtesting_quadVBO' = r.quadVBO
          /\ outputBGRA' = r.out
          /\ lastOp' = "hdrtesting_UploadToGL"
          /\ lastRet' = FALSE
          /\ lastEnv' = NoEnv
          /\ trace' = r.trace
          /\ log' = r.log
          /\ created' = r.created
          /\ fboStatus' = r.fbo
          /\ linkStatus' = r.link
          /\ stages' = r.stages
          /\ size' = in.size
          /\ runLen' = 0
          /\ baseline' = {}
          /\ repeat' = FALSE
          /\ UNCHANGED <<progVars, glVars, tornDown, reinit>>

\* the library, Clib: any sequence of its three exported calls
Next == InitGLFW \/ UploadToGL \/ CleanupGLFW

Spec == Init /\ [][Next]_vars

\* the harness, hdrtesting, a program of its own: its one exported call
HarnessNext == TestUploadToGL

HarnessSpec == Init /\ [][HarnessNext]_vars

(***************************************************************************)
(* Properties.                                                             *)
(***************************************************************************)
Range(seq) == {seq[i] : i \in 1..Len(seq)}
Count(seq, x) == Cardinality({i \in 1..Len(seq) : seq[i] = x})
IsPrefix(p, seq) == Len(p) <= Len(seq) /\ SubSeq(seq, 1, Len(p)) = p

\* the calls of a complete initialization, lines 129-147
FullInit ==
    <<"glfwInit">> \o WindowHints
    \o <<"glfwCreateWindow", "glfwMakeContextCurrent", "gladLoadGLLoader">>

\* the last UploadToGL returned before its readback
ReturnedEarly == lastOp = "UploadToGL" /\ "glReadPixels" \notin Range(trace)

\* C1: an InitGLFW call that directly follows an InitGLFW call and meets the
\* same outcomes of glfwInit, window creation and GL loading returns what the
\* first call returned; and when the first call returned true, it makes no
\* library call at all, creates no window, loads nothing and leaves gWindow,
\* gGLReady and the rest of the GLFW / GL state as they were.
C1_InitTwiceIsInitOnce ==
    [][(lastOp = "InitGLFW" /\ lastOp' = "InitGLFW" /\ lastEnv' = lastEnv)
        => /\ lastRet' = lastRet
           /\ lastRet => /\ trace' = <<>>
                         /\ UNCHANGED <<progVars, glVars>>]_vars

C1_Witness ==
    /\ lastOp = "InitGLFW" /\ repeat /\ lastRet /\ trace = <<>>
    /\ gGLReady /\ liveWindows = {gWindow}

\* C2: after N >= 1 UploadToGL calls in a row that each got an initialized
\* context and a complete framebuffer, the live textures, framebuffers and
\* programs are exactly those live before the first of the N calls, no shader
\* stage object is left, and whatever else is live is vertex-array or buffer
\* geometry.
C2_NoLeakAfterNCalls ==
    runLen >= 1 =>
        /\ PerCall(objs) = baseline
        /\ \A o \in objs \ baseline : o.kind \in {"vertexarray", "buffer"}

C2_Witness ==
    /\ runLen >= 2 /\ lastOp = "UploadToGL"
    /\ Obj(gWindow, "vertexarray", quadVAO) \in objs

\* C3: when an UploadToGL call has returned, none of the textures,
\* framebuffers and programs it generated is live, whichever return it took.
C3_NothingOutlivesTheCall ==
    lastOp = "UploadToGL" => PerCall(created) \cap objs = {}

\* C4: at most one window (and so one GL context) made by the library is
\* live, in every reachable state.
C4_AtMostOneContext == Cardinality(liveWindows) <= 1

\* C5: a CleanupGLFW call made with the context ready destroys the hidden
\* window and leaves the context not ready; a call made with the context not
\* ready (never initialized, or cleaned up already, as in a second call in a
\* row) makes no library call, destroys nothing and changes no state.
C5_CleanupOnceThenNoOp ==
    [][lastOp' = "CleanupGLFW"
        => IF gGLReady
           THEN /\ gWindow \in liveWindows /\ gWindow \notin liveWindows'
                /\ ~gGLReady'
                /\ "glfwDestroyWindow" \in Range(trace')
           ELSE /\ trace' = <<>>
                /\ UNCHANGED <<progVars, glVars>>]_vars

C5_Witness ==
    /\ lastOp = "CleanupGLFW" /\ repeat /\ trace = <<>>
    /\ ~gGLReady /\ gWindow # 0 /\ gWindow \notin liveWindows

\* C6: once a CleanupGLFW has torn a ready context down, the next InitGLFW,
\* called directly or by UploadToGL, does not take the shortcut: it starts
\* over at glfwInit, makes the calls and returns the value a first call in a
\* fresh process makes and returns under the same outcomes, and under the
\* outcomes of the successful first call that is the complete initialization,
\* ending with the context ready and current on a window created by this call.
C6_ReinitAfterTeardown ==
    [][(tornDown /\ lastOp' \in {"InitGLFW", "UploadToGL"})
        => /\ trace' # <<>> /\ Head(trace') = "glfwInit"
           /\ IsPrefix(DoInitGLFW(Fresh, lastEnv').trace, trace')
           /\ lastRet' = DoInitGLFW(Fresh, lastEnv').ret
           /\ lastEnv' = AllOk =>
                /\ IsPrefix(FullInit, trace')
                /\ lastRet' /\ gGLReady' /\ gladLoaded'
                /\ gWindow' \in liveWindows' \ liveWindows
                /\ gWindow' # gWindow
                /\ currentCtx' = gWindow']_vars

C6_Witness ==
    /\ reinit /\ lastOp = "UploadToGL" /\ lastRet /\ IsPrefix(FullInit, trace)
    /\ gGLReady /\ gWindow > 1 /\ liveWindows = {gWindow}

\* C7: an UploadToGL call that returned because InitGLFW failed or because
\* the framebuffer was not complete has written no byte of outputBGRA and has
\* not called glReadPixels; glReadPixels is called only after both tests
\* passed.
C7_EarlyReturnLeavesOutput ==
    lastOp = "UploadToGL" =>
        /\ (~lastRet \/ fboStatus # "GL_FRAMEBUFFER_COMPLETE")
              => (outputBGRA = Unwritten /\ "glReadPixels" \notin Range(trace))
        /\ (outputBGRA # Unwritten \/ "glReadPixels" \in Range(trace))
              => (lastRet /\ fboStatus = "GL_FRAMEBUFFER_COMPLETE")

C7_Witness ==
    /\ lastOp = "UploadToGL" /\ lastRet
    /\ fboStatus = "GL_FRAMEBUFFER_UNSUPPORTED"
    /\ "glCheckFramebufferStatus" \in Range(trace)
    /\ outputBGRA = Unwritten

\* C8: an UploadToGL call that returned without the readback has emitted a
\* diagnostic.
C8_EarlyReturnIsLogged == ReturnedEarly => log # <<>>

\* C9: UploadToGL draws and reads back only with a program whose link
\* succeeded.
C9_BrokenProgramNeverRenders ==
    (lastOp = "UploadToGL"
        /\ ("glDrawArrays" \in Range(trace) \/ "glReadPixels" \in Range(trace)))
    => linkStatus = "linked"

\* C10: a render pass that constructs a Shader calls Delete() on it exactly
\* once before it returns.
C10_ShaderDeletedExactlyOnce ==
    "Shader::Shader" \in Range(trace) => Count(trace, "Shader::Delete") = 1

\* C11: an UploadToGL call that got its context and a complete framebuffer,
\* given an all-zero image of width x height pixels and any exposure and
\* whitePoint > 0, has written exactly width*height*4 bytes of outputBGRA and
\* every pixel it wrote is (0,0,0,255) in BGRA order.
C11_ZeroInputGivesBlack ==
    (lastOp = "UploadToGL" /\ lastRet /\ fboStatus = "GL_FRAMEBUFFER_COMPLETE")
    => /\ outputBGRA.bytes = size.width * size.height * 4
       /\ \A e \in Exposures, wp \in WhitePoints :
            \A i \in 1..(size.width * size.height) :
                ReadsBack(outputBGRA.content, <<0, 0, 0>>, e, wp,
                          <<0, 0, 0, 255>>)

\* the same call with both shader stages compiled, the program linked and
\* the quad's vertex array live in the current context
C11_RenderedZeroIsBlack ==
    (lastOp = "UploadToGL" /\ lastRet /\ fboStatus = "GL_FRAMEBUFFER_COMPLETE"
        /\ linkStatus = "linked"
        /\ Obj(currentCtx, "vertexarray", quadVAO) \in objs)
    => /\ outputBGRA.bytes = size.width * size.height * 4
       /\ \A e \in Exposures, wp \in WhitePoints :
            \A i \in 1..(size.width * size.height) :
                ReadsBack(outputBGRA.content, <<0, 0, 0>>, e, wp,
                          <<0, 0, 0, 255>>)

\* the calls that open the steps of UploadToGL after the context and the quad
\* are ensured (src/Clib/HDR.cpp lines 197-313): input texture uploaded,
\* framebuffer created, framebuffer verified, shader built, shader activated,
\* uniforms bound, draw, readback, release
StepCalls ==
    <<"glTexImage2D", "glGenFramebuffers", "glCheckFramebufferStatus",
      "Shader::Shader", "Shader::Activate", "glUniform1i", "glDrawArrays",
      "glReadPixels", "glDeleteTextures">>

\* the calls that release a per-call object (texture, framebuffer, program)
ReleaseCalls == {"glDeleteTextures", "glDeleteFramebuffers", "glDeleteProgram"}

\* calls made by InitGLFW, none of them a GPU call
LibraryCalls ==
    {"glfwInit", "glfwWindowHint", "glfwCreateWindow", "glfwMakeContextCurrent",
     "gladLoadGLLoader"}

Occurs(call) == call \in Range(trace)
First(call) == CHOOSE i \in 1..Len(trace) :
                  trace[i] = call /\ \A j \in 1..(i - 1) : trace[j] # call

\* the steps of the last call are taken in the order of StepCalls, none
\* without the one before it
InStepOrder ==
    \A k \in 2..Len(StepCalls) :
        Occurs(StepCalls[k]) =>
            /\ Occurs(StepCalls[k - 1])
            /\ First(StepCalls[k - 1]) < First(StepCalls[k])

\* no draw without a framebuffer found complete in this call, no readback
\* before the draw, no per-call object released before the readback
DrawReadReleaseOrder ==
    /\ Occurs("glDrawArrays") =>
          /\ Occurs("glCheckFramebufferStatus")
          /\ First("glCheckFramebufferStatus") < First("glDrawArrays")
          /\ fboStatus = "GL_FRAMEBUFFER_COMPLETE"
    /\ \A i \in 1..Len(trace) :
          /\ trace[i] = "glReadPixels" =>
                Occurs("glDrawArrays") /\ First("glDrawArrays") < i
          /\ trace[i] \in ReleaseCalls =>
                Occurs("glReadPixels") /\ First("glReadPixels") < i

\* a step is taken only when the step before it succeeded: the context was
\* obtained, the framebuffer was complete, the program was built
EachStepNeedsSuccess ==
    /\ Occurs("glTexImage2D") => lastRet
    /\ Occurs("Shader::Shader") => fboStatus = "GL_FRAMEBUFFER_COMPLETE"
    /\ Occurs("Shader::Activate") => linkStatus = "linked"

\* C12: in every UploadToGL call the steps occur in the order context, quad,
\* input texture, render target and framebuffer, completeness test, shader
\* build and activation, uniforms, draw, readback, release, each taken only
\* when the one before it succeeded; no draw without a framebuffer found
\* complete in the same call, no readback before the draw, no per-call object
\* released before the readback.
C12_StepsInOrderEachOnSuccess ==
    lastOp = "UploadToGL" =>
        InStepOrder /\ DrawReadReleaseOrder /\ EachStepNeedsSuccess

\* the order alone, and the two tests the code does make
C12_OrderAndTestedSteps ==
    lastOp = "UploadToGL" =>
        /\ InStepOrder /\ DrawReadReleaseOrder
        /\ Occurs("glTexImage2D") => lastRet
        /\ Occurs("Shader::Shader") => fboStatus = "GL_FRAMEBUFFER_COMPLETE"

\* the GPU calls among the calls of a call: all but those of InitGLFW and
\* the entries into the Shader class's own functions
GpuCalls(tr) ==
    Range(tr) \ (LibraryCalls
                  \cup {"Shader::Shader", "Shader::Activate", "Shader::Delete"})

\* the context is ready: gGLReady is set and gWindow is a live window whose
\* context is current and has its GL entry points loaded
ContextReady ==
    /\ gGLReady
    /\ gWindow \in liveWindows
    /\ currentCtx = gWindow
    /\ gladLoaded

\* C13: InitGLFW, called directly or by UploadToGL, returns true exactly when
\* the context is ready on return, and false when glfwInit, window creation
\* or the loading of the GL entry points failed in it; an UploadToGL call in
\* which InitGLFW returned false makes no GPU call, creates and deletes no
\* GPU object, and every UploadToGL call that makes a GPU call has a ready
\* context.
C13_TrueIffReadyNoGpuCallOnFalse ==
    [][lastOp' \in {"InitGLFW", "UploadToGL"}
        => /\ lastRet' <=> ContextReady'
           /\ lastRet' <=> gGLReady'
           /\ (~gGLReady /\ (~GlfwInitOk(State, lastEnv') \/ ~lastEnv'.window
                                \/ ~lastEnv'.loader))
                => ~lastRet'
           /\ lastOp' = "UploadToGL" =>
                /\ ~lastRet' => (GpuCalls(trace') = {} /\ created' = {}
                                    /\ objs' = objs)
                /\ GpuCalls(trace') # {} => (lastRet' /\ ContextReady')]_vars

C13_Witness ==
    /\ lastOp = "UploadToGL" /\ ~lastRet /\ ~gGLReady
    /\ "gladLoadGLLoader" \in Range(trace)
    /\ gWindow \in liveWindows /\ currentCtx = gWindow
    /\ GpuCalls(trace) = {} /\ outputBGRA = Unwritten

\* name is 0 or names an object of this kind that exists in the context of
\* the library's live window
NamesLiveObject(kind, name) ==
    name = 0 \/ (gWindow \in liveWindows /\ Obj(gWindow, kind, name) \in objs)

\* C14: in every reachable state quadVAO and quadVBO are each 0 or the name
\* of an object that exists in the live GL context, and an UploadToGL call
\* that drew (also after CleanupGLFW and re-initialization) bound a vertex
\* array that is a live object of the current context.
C14_QuadNamesLiveObjects ==
    /\ NamesLiveObject("vertexarray", quadVAO)
    /\ NamesLiveObject("buffer", quadVBO)
    /\ (lastOp = "UploadToGL" /\ Occurs("glDrawArrays"))
          => (quadVAO # 0 /\ Obj(currentCtx, "vertexarray", quadVAO) \in objs)

QuadKinds == {"vertexarray", "buffer"}

\* C15: the quad is created once and reused: a render pass that finds the
\* quad created (every pass but the first) creates no vertex array and no
\* buffer and leaves quadVAO and quadVBO as they were, so that after any
\* number of passes one vertex array and one buffer have been created.  This
\* is stated of both programs that have an InitFullscreenQuad, the library
\* and the harness.
C15_QuadCreatedOnce ==
    [][/\ (lastOp' = "UploadToGL" /\ quadVAO # 0)
            => /\ \A o \in created' : o.kind \notin QuadKinds
               /\ UNCHANGED <<quadVAO, quadVBO>>
       /\ (lastOp' = "hdrtesting_UploadToGL" /\ hdrtesting_quadVAO # 0)
            => /\ \A o \in created' : o.kind \notin QuadKinds
               /\ UNCHANGED <<hdrtesting_quadVAO, hdrtesting_quadVBO>>
               /\ Cardinality({o \in hdrtesting_objs' : o.kind = "vertexarray"}) = 1
               /\ Cardinality({o \in hdrtesting_objs' : o.kind = "buffer"}) = 1]_vars

StageLabels == {"VERTEX", "FRAGMENT", "PROGRAM"}

\* the diagnostics of the last call: what compileErrors printed, without the
\* file loader's lines
Diagnostics == SelectSeq(log, LAMBDA l : l # "file not found")

\* the label a diagnostic line carries
LabelOf(line) ==
    CHOOSE t \in StageLabels :
        line \in {"SHADER_COMPILATION_ERROR for: " \o t,
                  "SHADER_LINKING_ERROR for: " \o t}

\* one label for each of the three steps whose status flag is false
FailedSteps ==
    (IF stages.vertex THEN <<>> ELSE <<"VERTEX">>)
    \o (IF stages.fragment THEN <<>> ELSE <<"FRAGMENT">>)
    \o (IF linkStatus = "linked" THEN <<>> ELSE <<"PROGRAM">>)

\* C16: a call that constructed a Shader got a program handle from it
\* whatever the outcomes of the two compilations and the link (also with
\* empty source from a missing file); the constructor compiled the vertex
\* stage, compiled the fragment stage and linked, in that order, printed one
\* diagnostic labelled VERTEX, FRAGMENT or PROGRAM for each of these steps
\* whose status flag is false and none for a step that succeeded, and deleted
\* both stage objects before it returned.
C16_ShaderBuildTotalAndDiagnosed ==
    Occurs("Shader::Shader") =>
        /\ \E o \in created : o.kind = "program" /\ o.name # 0
        /\ Count(trace, "glCompileShader") = 2
        /\ Count(trace, "glLinkProgram") = 1
        /\ \A i \in 1..Len(trace) :
              trace[i] = "glCompileShader" => i < First("glLinkProgram")
        /\ Count(trace, "glDeleteShader") = 2
        /\ \A i \in 1..Len(trace) :
              trace[i] = "glDeleteShader" =>
                  /\ First("glLinkProgram") < i
                  /\ Occurs("Shader::Activate") => i < First("Shader::Activate")
        /\ \A o \in objs \cup hdrtesting_objs : o.kind # "shader"
        /\ Len(Diagnostics) = Len(FailedSteps)
        /\ \A i \in 1..Len(Diagnostics) : LabelOf(Diagnostics[i]) = FailedSteps[i]

\* the same without the PROGRAM diagnostic: handle, order, deletion, and the
\* diagnostics of the two compilations
C16_AllButTheLinkDiagnostic ==
    Occurs("Shader::Shader") =>
        /\ \E o \in created : o.kind = "program" /\ o.name # 0
        /\ Count(trace, "glCompileShader") = 2
        /\ Count(trace, "glLinkProgram") = 1
        /\ \A i \in 1..Len(trace) :
              trace[i] = "glCompileShader" => i < First("glLinkProgram")
        /\ Count(trace, "glDeleteShader") = 2
        /\ \A i \in 1..Len(trace) :
              trace[i] = "glDeleteShader" => First("glLinkProgram") < i
        /\ \A o \in objs \cup hdrtesting_objs : o.kind # "shader"
        /\ LET d == SelectSeq(Diagnostics, LAMBDA l : LabelOf(l) # "PROGRAM")
               f == SelectSeq(FailedSteps, LAMBDA t : t # "PROGRAM")
           IN  /\ Len(d) = Len(f)
               /\ \A i \in 1..Len(d) : LabelOf(d[i]) = f[i]

\* C17: in every reachable state gWindow is nullptr or points to a window
\* that has not been destroyed, and gGLReady implies that gWindow points to a
\* live window.
C17_WindowPointerNeverDangles ==
    /\ gWindow = 0 \/ gWindow \in liveWindows
    /\ gGLReady => gWindow \in liveWindows

\* the second half alone
C17_ReadyImpliesLiveWindow == gGLReady => gWindow \in liveWindows

=============================================================================
